---- MODULE Spec2Model ----
(***************************************************************************)
(* The Verde registration walkthrough (verde-examples/walkthrough.ipynb):  *)
(* the subscription key is resolved, then three GraphQL operations are     *)
(* posted one after the other, each followed by check_results and by the   *)
(* literal key-path navigation into the returned data.  The GraphQL server *)
(* is the environment: every response it may give is drawn from a bounded  *)
(* set.  An exception raised in a cell ends the run.                       *)
(***************************************************************************)
EXTENDS Integers, Sequences, FiniteSets, TLC

VARIABLES
    environ,            \* os.environ, restricted to the entry API_KEY
    stdin,              \* the characters the user types if input() is called
    prompts,            \* how many times input() was called
    API_KEY,
    common_headers,
    pc,                 \* the next cell to run, or "done" / "halted"
    sent,               \* the requests handed to requests.post, in order
    result,             \* the last requests.Response
    data,
    cost,
    registrationID,
    brown_vegetation,
    stdout,             \* the lines printed so far
    raised,             \* the exception that ended the run, or None
    failed              \* the cell that raised it, or "none"

vars == <<environ, stdin, prompts, API_KEY, common_headers, pc, sent, result,
          data, cost, registrationID, brown_vegetation, stdout, raised, failed>>

---------------------------------------------------------------------------
(* Bounds of the server's responses. *)

\* the longest `errors` list the server sends
MaxErrors == 2
\* the most `locations` one error entry carries
MaxLocs == 1

---------------------------------------------------------------------------
(* Python values.  JSON values are tagged trees; a path segment is either  *)
(* a string key or an integer index.                                       *)

Null == [t |-> "null"]
Num(n) == [t |-> "num", n |-> n]
Str(s) == [t |-> "str", s |-> s]
List(l) == [t |-> "list", l |-> l]
Dict(d) == [t |-> "dict", d |-> d]
\* a name no cell has assigned yet
Unset == [t |-> "unset"]

Key(s) == [key |-> s]
Index(i) == [index |-> i]
IsKey(seg) == "key" \in DOMAIN seg

None == [type |-> "None", msg |-> ""]
Exc(type, msg) == [type |-> type, msg |-> msg]

\* repr() of a str or of an int, as KeyError shows its key
repr(seg) == IF IsKey(seg) THEN "'" \o seg.key \o "'" ELSE ToString(seg.index)

RECURSIVE Join(_, _)
\* sep.join(ss) for a list of str
Join(sep, ss) ==
    IF Len(ss) = 0 THEN ""
    ELSE IF Len(ss) = 1 THEN ss[1]
    ELSE ss[1] \o sep \o Join(sep, Tail(ss))

\* position of the first item of a list that is not a str, 0 when all are
FirstNonStr(items) ==
    IF \A i \in 1..Len(items) : IsKey(items[i]) THEN 0
    ELSE CHOOSE i \in 1..Len(items) :
            /\ ~IsKey(items[i])
            /\ \A j \in 1..(i - 1) : IsKey(items[j])

\* sep.join(items): Python raises TypeError on the first item that is not a str
str_join(sep, items) ==
    LET k == FirstNonStr(items) IN
    IF k = 0
    THEN [exc |-> None, s |-> Join(sep, [i \in 1..Len(items) |-> items[i].key])]
    ELSE [exc |-> Exc("TypeError", "sequence item " \o ToString(k - 1)
                                   \o ": expected str instance, int found"),
          s |-> ""]

---------------------------------------------------------------------------
(* Cell 2: endpoint, subscription key, headers. *)

GRAPHQL_ENDPOINT == "https://api.agrimetrics.co.uk/graphql/v1/"

Whitespace == {" ", "\t", "\n"}

RECURSIVE lstrip(_)
lstrip(cs) ==
    IF Len(cs) > 0 /\ cs[1] \in Whitespace THEN lstrip(Tail(cs)) ELSE cs

RECURSIVE rstrip(_)
rstrip(cs) ==
    IF Len(cs) > 0 /\ cs[Len(cs)] \in Whitespace
    THEN rstrip(SubSeq(cs, 1, Len(cs) - 1)) ELSE cs

\* str.strip() of the typed characters, as a string
strip(cs) == Join("", rstrip(lstrip(cs)))

\* a faulty variant of ResolveKey: the prompt is shown even when the variable is set
ResolveKey_always_prompt(env, typed) ==
    [key |-> strip(typed), prompted |-> 1]

\* if "API_KEY" in os.environ: ... else: input(...).strip()
ResolveKey(env, typed) ==
    IF env.set
    THEN [key |-> env.value, prompted |-> 0]
    ELSE [key |-> strip(typed), prompted |-> 1]

CommonHeaders(key) ==
    [h \in {"OCP-APIM-Subscription-Key", "Accept", "Content-Type"} |->
        IF h = "OCP-APIM-Subscription-Key" THEN key ELSE "application/json"]

---------------------------------------------------------------------------
(* The server's responses: a status code, the raw body text, and what      *)
(* result.json() makes of that text.                                       *)

Statuses == {200, 201, 204, 403}

\* the i-th location of an error entry; the first is line 3, column 5
LocAt(i) == [line |-> i + 2, column |-> i + 4]

LocationLists == {[i \in 1..n |-> LocAt(i)] : n \in 0..MaxLocs}

ErrorPaths ==
    { <<Key("account"), Key("premiumData")>>,
      <<Key("fields"), Index(0), Key("id")>>,
      <<>> }

ErrorEntries ==
    [message : {"bad field"}, locations : LocationLists,
     path : ErrorPaths, extensions : {[code |-> "INVALID"]}]

ErrorLists == UNION {[1..n -> ErrorEntries] : n \in 0..MaxErrors}

cost_doc ==
    Dict([account |-> Dict([premiumData |-> Dict(
        [cropObservationRegistrationsCost |-> List(<<Dict([cost |-> Num(0)])>>)])])])

registration_doc ==
    Dict([account |-> Dict([premiumData |-> Dict(
        [addCropObservationRegistrations |->
            List(<<Dict([cost |-> Num(0), id |-> Str("reg-1")])>>)])])])

fields_doc ==
    Dict([fields |-> List(<<Dict([cropObservations |-> Dict(
        [brownVegetationCoverFraction |->
            List(<<Dict([unit |-> Str("u1"), median |-> Num(1), mean |-> Num(2)])>>)])])>>)])

\* the lists the walkthrough indexes are empty
empty_list_doc ==
    Dict([account |-> Dict([premiumData |-> Dict(
        [cropObservationRegistrationsCost |-> List(<<>>),
         addCropObservationRegistrations |-> List(<<>>)])]),
          fields |-> List(<<>>)])

\* a nullable object resolved to null
null_premium_doc == Dict([account |-> Dict([premiumData |-> Null])])

\* a key the walkthrough reads is absent
no_premium_doc == Dict([account |-> Dict([name |-> Str("a")])])

\* strings where the walkthrough expects lists
string_doc ==
    Dict([account |-> Dict([premiumData |-> Dict(
        [cropObservationRegistrationsCost |-> Str("x"),
         addCropObservationRegistrations |-> Str("")])]),
          fields |-> Str("y")])

\* a list where the walkthrough expects an object, an object where it
\* expects a list
wrong_kind_doc == Dict([account |-> List(<<>>), fields |-> Dict([total |-> Num(1)])])

\* the `data` members the server sends, each with its JSON text
DataDocs ==
    { [text |-> "null", value |-> Null],
      [text |-> "{\"account\":{\"premiumData\":{\"cropObservationRegistrationsCost\":[{\"cost\":0}]}}}",
       value |-> cost_doc],
      [text |-> "{\"account\":{\"premiumData\":{\"addCropObservationRegistrations\":[{\"cost\":0,\"id\":\"reg-1\"}]}}}",
       value |-> registration_doc],
      [text |-> "{\"fields\":[{\"cropObservations\":{\"brownVegetationCoverFraction\":[{\"unit\":\"u1\",\"median\":1,\"mean\":2}]}}]}",
       value |-> fields_doc],
      [text |-> "{\"account\":{\"premiumData\":{\"cropObservationRegistrationsCost\":[],\"addCropObservationRegistrations\":[]}},\"fields\":[]}",
       value |-> empty_list_doc],
      [text |-> "{\"account\":{\"premiumData\":null}}", value |-> null_premium_doc],
      [text |-> "{\"account\":{\"name\":\"a\"}}", value |-> no_premium_doc],
      [text |-> "{\"account\":{\"premiumData\":{\"cropObservationRegistrationsCost\":\"x\",\"addCropObservationRegistrations\":\"\"}},\"fields\":\"y\"}",
       value |-> string_doc],
      [text |-> "{\"account\":[],\"fields\":{\"total\":1}}", value |-> wrong_kind_doc] }

q == "\""

SegText(seg) == IF IsKey(seg) THEN q \o seg.key \o q ELSE ToString(seg.index)

LocText(loc) ==
    "{" \o q \o "line" \o q \o ":" \o ToString(loc.line) \o ","
        \o q \o "column" \o q \o ":" \o ToString(loc.column) \o "}"

ErrorText(err) ==
    "{" \o q \o "message" \o q \o ":" \o q \o err.message \o q \o ","
        \o q \o "locations" \o q \o ":["
        \o Join(",", [i \in 1..Len(err.locations) |-> LocText(err.locations[i])]) \o "],"
        \o q \o "path" \o q \o ":["
        \o Join(",", [i \in 1..Len(err.path) |-> SegText(err.path[i])]) \o "],"
        \o q \o "extensions" \o q \o ":{" \o q \o "code" \o q \o ":"
        \o q \o err.extensions.code \o q \o "}}"

ErrorsText(errors) ==
    q \o "errors" \o q \o ":["
      \o Join(",", [i \in 1..Len(errors) |-> ErrorText(errors[i])]) \o "]"

\* a body that is not JSON: result.json() raises
TextBody(text) ==
    [text |-> text, valid |-> FALSE, hasData |-> FALSE, data |-> Null,
     hasErrors |-> FALSE, errors |-> <<>>]

\* a JSON object with an optional `data` and an optional `errors` member
JsonBody(hasData, doc, hasErrors, errors) ==
    [text |-> "{" \o Join(",", (IF hasData THEN <<q \o "data" \o q \o ":" \o doc.text>> ELSE <<>>)
                               \o (IF hasErrors THEN <<ErrorsText(errors)>> ELSE <<>>)) \o "}",
     valid |-> TRUE, hasData |-> hasData, data |-> IF hasData THEN doc.value ELSE Null,
     hasErrors |-> hasErrors, errors |-> IF hasErrors THEN errors ELSE <<>>]

Bodies ==
    {TextBody("Forbidden"), TextBody("")}
    \cup {JsonBody(TRUE, doc, TRUE, errors) : doc \in DataDocs, errors \in ErrorLists}
    \cup {JsonBody(TRUE, doc, FALSE, <<>>) : doc \in DataDocs}
    \cup {JsonBody(FALSE, Null, TRUE, errors) : errors \in ErrorLists}
    \cup {JsonBody(FALSE, Null, FALSE, <<>>)}

\* requests.Response: status_code, text, and the value json() parses text to
Responses == [status_code : Statuses, body : Bodies]

---------------------------------------------------------------------------
(* Cell 3: check_results. *)

LocString(loc) == "line " \o ToString(loc.line) \o ", col " \o ToString(loc.column)

\* str() of the extensions dict
dict_str(ext) == "{'code': '" \o ext.code \o "'}"

\* the four print calls for one entry of errors; ".".join raises on an int
PrintError(err, out) ==
    LET l1 == err.message \o ":"
        l2 == "  at " \o Join(" and ", [i \in 1..Len(err.locations) |->
                                            LocString(err.locations[i])])
        pj == str_join(".", err.path)
    IN  IF pj.exc # None
        THEN [stdout |-> out \o <<l1, l2>>, exc |-> pj.exc]
        ELSE [stdout |-> out \o <<l1, l2, "  path " \o pj.s,
                                  "  " \o dict_str(err.extensions)>>,
              exc |-> None]

RECURSIVE PrintErrors(_, _)
\* for err in errors: ...
PrintErrors(errors, out) ==
    IF Len(errors) = 0 THEN [stdout |-> out, exc |-> None]
    ELSE LET p == PrintError(Head(errors), out) IN
         IF p.exc # None THEN p ELSE PrintErrors(Tail(errors), p.stdout)

\* errors = result.json().get("errors", []); if errors: ... raise
check_errors(res, out) ==
    IF ~res.body.valid
    THEN [stdout |-> out, exc |-> Exc("JSONDecodeError", "Expecting value: line 1 column 1 (char 0)")]
    ELSE LET errors == IF res.body.hasErrors THEN res.body.errors ELSE <<>> IN
         IF Len(errors) > 0
         THEN LET p == PrintErrors(errors, out) IN
              IF p.exc # None THEN p
              ELSE [stdout |-> p.stdout,
                    exc |-> Exc("Exception", "GraphQL reported "
                                  \o ToString(Len(errors)) \o " errors")]
         ELSE [stdout |-> out, exc |-> None]

\* a faulty variant of check_results: the message leaves out the body text
check_results_no_text(res, out) ==
    IF res.status_code # 200
    THEN [stdout |-> out,
          exc |-> Exc("Exception", "Request failed with code "
                        \o ToString(res.status_code) \o ".")]
    ELSE check_errors(res, out)

\* a faulty variant of check_results: every 2xx status passes the status test
check_results_2xx(res, out) ==
    IF res.status_code \notin 200..299
    THEN [stdout |-> out,
          exc |-> Exc("Exception", "Request failed with code "
                        \o ToString(res.status_code) \o ".\n" \o res.body.text)]
    ELSE check_errors(res, out)

check_results(res, out) ==
    IF res.status_code # 200
    THEN [stdout |-> out,
          exc |-> Exc("Exception", "Request failed with code "
                        \o ToString(res.status_code) \o ".\n" \o res.body.text)]
    ELSE check_errors(res, out)

---------------------------------------------------------------------------
(* Literal key-path navigation: data['account']['premiumData']...[0]['cost'] *)

Ok(v) == [exc |-> None, value |-> v]
Raise(type, msg) == [exc |-> Exc(type, msg), value |-> Unset]

\* a faulty variant of subscript: a key absent from a dict yields None, as dict.get does
subscript_default(v, seg) ==
    CASE v.t = "dict" ->
            IF IsKey(seg) /\ seg.key \in DOMAIN v.d THEN Ok(v.d[seg.key]) ELSE Ok(Null)
      [] v.t = "list" ->
            IF IsKey(seg)
            THEN Raise("TypeError", "list indices must be integers or slices, not str")
            ELSE IF seg.index < Len(v.l)
            THEN Ok(v.l[seg.index + 1])
            ELSE Raise("IndexError", "list index out of range")
      [] v.t = "str" ->
            IF IsKey(seg)
            THEN Raise("TypeError", "string indices must be integers")
            ELSE IF seg.index < Len(v.s)
            THEN Ok(Str(v.s))
            ELSE Raise("IndexError", "string index out of range")
      [] v.t = "null" -> Raise("TypeError", "'NoneType' object is not subscriptable")
      [] OTHER -> Raise("TypeError", "'int' object is not subscriptable")

\* v[seg] as Python evaluates it on a parsed JSON value (seg is a str or an
\* int >= 0).  The documents of the model index one-character strings only,
\* where s[0] is s itself.
subscript(v, seg) ==
    CASE v.t = "dict" ->
            IF IsKey(seg) /\ seg.key \in DOMAIN v.d
            THEN Ok(v.d[seg.key]) ELSE Raise("KeyError", repr(seg))
      [] v.t = "list" ->
            IF IsKey(seg)
            THEN Raise("TypeError", "list indices must be integers or slices, not str")
            ELSE IF seg.index < Len(v.l)
            THEN Ok(v.l[seg.index + 1])
            ELSE Raise("IndexError", "list index out of range")
      [] v.t = "str" ->
            IF IsKey(seg)
            THEN Raise("TypeError", "string indices must be integers")
            ELSE IF seg.index < Len(v.s)
            THEN Ok(Str(v.s))
            ELSE Raise("IndexError", "string index out of range")
      [] v.t = "null" -> Raise("TypeError", "'NoneType' object is not subscriptable")
      [] OTHER -> Raise("TypeError", "'int' object is not subscriptable")

RECURSIVE get_path(_, _)
\* v[p1][p2]...[pn], left to right; the first subscript that raises ends it
get_path(v, path) ==
    IF Len(path) = 0 THEN Ok(v)
    ELSE LET r == subscript(v, Head(path)) IN
         IF r.exc # None THEN r ELSE get_path(r.value, Tail(path))

cost_path ==
    <<Key("account"), Key("premiumData"), Key("cropObservationRegistrationsCost"),
      Index(0), Key("cost")>>

registrationID_path ==
    <<Key("account"), Key("premiumData"), Key("addCropObservationRegistrations"),
      Index(0), Key("id")>>

brown_vegetation_path ==
    <<Key("fields"), Index(0), Key("cropObservations"),
      Key("brownVegetationCoverFraction")>>

---------------------------------------------------------------------------
(* The three operations and the cells that run them. *)

cost_variables ==
    [fieldId |-> "https://data.agrimetrics.co.uk/fields/-Dzkwq1lmP0VkSfEcpSqsQ",
     season |-> "SEP2019TOSEP2020", layerType |-> "CROP_SPECIFIC", cropType |-> "GRASS"]

cost_query_object ==
    [query |-> "query RegistrationCostQuery", variables |-> cost_variables,
     operationName |-> "RegistrationCostQuery"]

registration_query_object ==
    [query |-> "mutation RegistrationQuery", variables |-> cost_variables,
     operationName |-> "RegistrationQuery"]

data_query_object ==
    [query |-> "query getFieldIdAtLocation", variables |-> cost_variables,
     operationName |-> "getFieldIdAtLocation"]

\* what requests.post is handed
post(url, headers, json) == [url |-> url, headers |-> headers, json |-> json]

\* a faulty variant of execute: a failed check posts the operation a second time
execute_retry(headers, operation, res, out) ==
    LET chk == check_results(res, out) IN
    [requests |-> IF chk.exc = None
                  THEN <<post(GRAPHQL_ENDPOINT, headers, operation)>>
                  ELSE <<post(GRAPHQL_ENDPOINT, headers, operation),
                         post(GRAPHQL_ENDPOINT, headers, operation)>>,
     stdout |-> chk.stdout,
     exc |-> IF chk.exc # None THEN chk.exc
             ELSE IF res.body.hasData THEN None
             ELSE Exc("KeyError", "'data'"),
     data |-> IF chk.exc = None /\ res.body.hasData THEN res.body.data ELSE Unset]

\* a faulty variant of execute: data is bound to the whole body, data = result.json()
execute_whole_body(headers, operation, res, out) ==
    LET chk == check_results(res, out) IN
    [requests |-> <<post(GRAPHQL_ENDPOINT, headers, operation)>>,
     stdout |-> chk.stdout,
     exc |-> chk.exc,
     data |-> IF chk.exc = None THEN Dict([data |-> res.body.data]) ELSE Unset]

\* result = requests.post(...); check_results(result); data = result.json()["data"]
\* with the server answering res: the requests made, the lines printed, the
\* exception raised (or None) and the value bound to data
execute(headers, operation, res, out) ==
    LET chk == check_results(res, out) IN
    [requests |-> <<post(GRAPHQL_ENDPOINT, headers, operation)>>,
     stdout |-> chk.stdout,
     exc |-> IF chk.exc # None THEN chk.exc
             ELSE IF res.body.hasData THEN None
             ELSE Exc("KeyError", "'data'"),
     data |-> IF chk.exc = None /\ res.body.hasData THEN res.body.data ELSE Unset]

\* a faulty variant of NextCell: the run goes on to the next cell after an exception
NextCell_continue(next, exc) == next

\* an exception raised in a cell ends the run; otherwise the next cell runs
NextCell(next, exc) == IF exc = None THEN next ELSE "halted"

Finish(here, next, exc) ==
    /\ pc' = NextCell(next, exc)
    /\ raised' = exc
    /\ failed' = IF exc = None THEN "none" ELSE here

Cell2 ==
    /\ pc = "cell2"
    /\ LET r == ResolveKey(environ, stdin) IN
        /\ API_KEY' = r.key
        /\ prompts' = prompts + r.prompted
        /\ common_headers' = CommonHeaders(r.key)
    /\ Finish("cell2", "cell6", None)
    /\ UNCHANGED <<environ, stdin, sent, result, data, cost, registrationID,
                   brown_vegetation, stdout>>

\* a cell that posts `operation`, checks the response and reads its data
QueryCell(here, next, operation) ==
    /\ pc = here
    /\ \E res \in Responses :
        LET r == execute(common_headers, operation, res, stdout) IN
        /\ sent' = sent \o r.requests
        /\ result' = res
        /\ stdout' = r.stdout
        /\ data' = IF r.exc = None THEN r.data ELSE data
        /\ Finish(here, next, r.exc)
    /\ UNCHANGED <<environ, stdin, prompts, API_KEY, common_headers, cost,
                   registrationID, brown_vegetation>>

Cell6 == QueryCell("cell6", "cell7", cost_query_object)

Cell7 ==
    /\ pc = "cell7"
    /\ LET r == get_path(data, cost_path) IN
        /\ cost' = IF r.exc = None THEN r.value ELSE cost
        /\ Finish("cell7", "cell10", r.exc)
    /\ UNCHANGED <<environ, stdin, prompts, API_KEY, common_headers, sent, result,
                   data, registrationID, brown_vegetation, stdout>>

Cell10 == QueryCell("cell10", "cell11", registration_query_object)

Cell11 ==
    /\ pc = "cell11"
    /\ LET r == get_path(data, registrationID_path) IN
        /\ registrationID' = IF r.exc = None THEN r.value ELSE registrationID
        /\ Finish("cell11", "cell13", r.exc)
    /\ UNCHANGED <<environ, stdin, prompts, API_KEY, common_headers, sent, result,
                   data, cost, brown_vegetation, stdout>>

Cell13 == QueryCell("cell13", "cell14", data_query_object)

\* first_field = data["fields"][0]; brown_vegetation = first_field[...][...]
\* (the DataFrame built from it and the print calls of cells 8 and 14 read
\* these names and change none of them)
Cell14 ==
    /\ pc = "cell14"
    /\ LET r == get_path(data, brown_vegetation_path) IN
        /\ brown_vegetation' = IF r.exc = None THEN r.value ELSE brown_vegetation
        /\ Finish("cell14", "done", r.exc)
    /\ UNCHANGED <<environ, stdin, prompts, API_KEY, common_headers, sent, result,
                   data, cost, registrationID, stdout>>

Environs == {[set |-> FALSE, value |-> ""], [set |-> TRUE, value |-> "env-key"]}

TypedInputs == {<<"k", "9">>, <<" ", "k", "9", "\t">>}

NoResult == [status_code |-> 0, body |-> TextBody("")]

Init ==
    /\ environ \in Environs
    /\ stdin \in TypedInputs
    /\ prompts = 0
    /\ API_KEY = ""
    /\ common_headers = CommonHeaders("")
    /\ pc = "cell2"
    /\ sent = <<>>
    /\ result = NoResult
    /\ data = Unset
    /\ cost = Unset
    /\ registrationID = Unset
    /\ brown_vegetation = Unset
    /\ stdout = <<>>
    /\ raised = None
    /\ failed = "none"

Next == Cell2 \/ Cell6 \/ Cell7 \/ Cell10 \/ Cell11 \/ Cell13 \/ Cell14

Spec == Init /\ [][Next]_vars

---------------------------------------------------------------------------
(* Properties. *)

\* the cells that post an operation
QueryCells == {"cell6", "cell10", "cell13"}

\* the exception check_results is expected to raise for a non-200 response
TransportError(res) ==
    Exc("Exception", "Request failed with code " \o ToString(res.status_code)
                     \o ".\n" \o res.body.text)

\* the exception expected for n entries in errors
GraphQLErrors(n) == Exc("Exception", "GraphQL reported " \o ToString(n) \o " errors")

\* C1: whenever a cell posts an operation and the response's status code is
\* not 200, whatever the body holds, the cell fails with the transport error
\* carrying that status code and the raw body text, binds no data and prints
\* nothing.
C1_TransportError ==
    [][(Len(sent') > Len(sent) /\ result'.status_code # 200) =>
            /\ raised' = TransportError(result')
            /\ pc' = "halted"
            /\ data' = data
            /\ stdout' = stdout]_vars

\* C1 witness: a 403 response whose JSON body carries a non-empty errors
\* array and a data member ended the run.
C1_Witness ==
    /\ failed \in QueryCells
    /\ result.status_code = 403
    /\ result.body.hasData
    /\ Len(result.body.errors) > 0
    /\ raised = TransportError(result)

\* a query cell has just run and `result` is the response it received
JustRan == failed \in QueryCells \/ pc \in {"cell7", "cell11", "cell14"}

\* a step in which a cell posts an operation
Posts == Len(sent') > Len(sent)

\* the path of an error entry as the specification renders it: every segment,
\* string or integer, joined by "."
DotPath(path) ==
    Join(".", [i \in 1..Len(path) |->
                  IF IsKey(path[i]) THEN path[i].key ELSE ToString(path[i].index)])

\* the four lines the specification gives for one error entry
Rendering(err) ==
    << err.message \o ":",
       "  at " \o Join(" and ", [i \in 1..Len(err.locations) |->
                                    LocString(err.locations[i])]),
       "  path " \o DotPath(err.path),
       "  " \o dict_str(err.extensions) >>

RECURSIVE Renderings(_)
\* the lines for every entry, in list order
Renderings(errors) ==
    IF Len(errors) = 0 THEN <<>>
    ELSE Rendering(Head(errors)) \o Renderings(Tail(errors))

MixedPath(path) ==
    /\ \E i \in 1..Len(path) : IsKey(path[i])
    /\ \E i \in 1..Len(path) : ~IsKey(path[i])

\* C2: a status-200 response with one or more entries in errors makes the
\* cell fail with the aggregate error reporting the number of entries, after
\* printing every entry, in list order, as its message, its locations
\* ("line L, col C" joined by " and "), its path joined by "." and its
\* extensions mapping.
C2_AggregateError ==
    (JustRan /\ result.status_code = 200 /\ Len(result.body.errors) > 0) =>
        /\ raised = GraphQLErrors(Len(result.body.errors))
        /\ stdout = Renderings(result.body.errors)

\* C6: a status-200 response with an error entry whose path mixes string and
\* integer segments still fails with the aggregate error reporting the count,
\* and that entry's path is printed with every segment joined by ".".
C6_MixedPath ==
    (JustRan /\ result.status_code = 200
        /\ \E i \in 1..Len(result.body.errors) : MixedPath(result.body.errors[i].path)) =>
        /\ raised = GraphQLErrors(Len(result.body.errors))
        /\ \A i \in 1..Len(result.body.errors) :
              MixedPath(result.body.errors[i].path) =>
                 \E j \in 1..Len(stdout) :
                    stdout[j] = "  path " \o DotPath(result.body.errors[i].path)

\* C9: a status-200 response carrying both a data object and a non-empty
\* errors array makes the cell fail with the aggregate error; the run ends
\* and data is not bound to the response's data.
C9_NoPartialResult ==
    [][(Posts /\ result'.status_code = 200 /\ result'.body.hasData
            /\ Len(result'.body.errors) > 0) =>
            /\ raised' = GraphQLErrors(Len(result'.body.errors))
            /\ pc' = "halted"
            /\ data' = data]_vars

\* C3 as stated: a status-200 response whose errors list is empty or absent
\* never makes the cell fail, and data is bound to the body's data member.
C3_Original ==
    [][(Posts /\ result'.status_code = 200 /\ result'.body.valid
            /\ Len(result'.body.errors) = 0) =>
            /\ raised' = None
            /\ data' = result'.body.data]_vars

\* C3 amended: a status-200 response whose body is a JSON object with a data
\* member and an empty or absent errors list does not make the cell fail, and
\* data is bound to exactly that data member; nothing is printed.
C3_ReturnsData ==
    [][(Posts /\ result'.status_code = 200 /\ result'.body.valid
            /\ result'.body.hasData /\ Len(result'.body.errors) = 0) =>
            /\ raised' = None
            /\ pc' \notin {pc, "halted"}
            /\ data' = result'.body.data
            /\ stdout' = stdout]_vars

\* C3 witness: the cost query was answered with status 200, an empty errors
\* list and the cost document, and data holds that document.
C3_Witness ==
    /\ pc = "cell7"
    /\ result.status_code = 200
    /\ result.body.hasErrors
    /\ Len(result.body.errors) = 0
    /\ result.body.data = cost_doc
    /\ data = cost_doc

\* the operation each query cell posts
OperationOf(cell) ==
    CASE cell = "cell6" -> cost_query_object
      [] cell = "cell10" -> registration_query_object
      [] cell = "cell13" -> data_query_object

\* C4: a step of a query cell hands exactly one request to requests.post,
\* that cell's operation, whatever the outcome; no other step sends anything.
C4_OneCallPerExecute ==
    [][IF pc \in QueryCells
       THEN /\ Len(sent') = Len(sent) + 1
            /\ SubSeq(sent', 1, Len(sent)) = sent
            /\ sent'[Len(sent')].url = GRAPHQL_ENDPOINT
            /\ sent'[Len(sent')].json = OperationOf(pc)
       ELSE sent' = sent]_vars

\* C4 witness: the registration mutation failed with a GraphQL error and two
\* requests were sent in all.
C4_Witness ==
    /\ failed = "cell10"
    /\ result.status_code = 200
    /\ raised = GraphQLErrors(1)
    /\ Len(sent) = 2

CellOrder == <<"cell2", "cell6", "cell7", "cell10", "cell11", "cell13", "cell14">>

Pos(cell) == CHOOSE i \in 1..Len(CellOrder) : CellOrder[i] = cell

RunOrder == <<"RegistrationCostQuery", "RegistrationQuery", "getFieldIdAtLocation">>

\* C5: the requests sent are, in order, the cost query, the registration
\* mutation and the data query, each at most once; the mutation is sent only
\* after the cost was read, the data query only after the registration id was
\* read; a raised exception ends the run, with no request sent by a cell
\* after the one that failed.
C5_StepOrder ==
    /\ Len(sent) <= Len(RunOrder)
    /\ \A i \in 1..Len(sent) : sent[i].json.operationName = RunOrder[i]
    /\ Len(sent) >= 2 => cost # Unset
    /\ Len(sent) >= 3 => registrationID # Unset
    /\ raised # None <=> pc = "halted"
    /\ pc = "halted" =>
         Len(sent) = Cardinality({c \in QueryCells : Pos(c) <= Pos(failed)})

\* C5 witness: the cost query failed with a GraphQL error; the mutation was
\* never sent.
C5_Witness ==
    /\ pc = "halted"
    /\ failed = "cell6"
    /\ raised = GraphQLErrors(2)
    /\ Len(sent) = 1

\* whether JSON value v has the member or element that seg names
HasChild(v, seg) ==
    \/ v.t = "dict" /\ IsKey(seg) /\ seg.key \in DOMAIN v.d
    \/ v.t = "list" /\ ~IsKey(seg) /\ seg.index < Len(v.l)

Child(v, seg) == IF v.t = "dict" THEN v.d[seg.key] ELSE v.l[seg.index + 1]

RECURSIVE MissingAt(_, _)
\* the position in path of the first segment missing from v, 0 when none is
MissingAt(v, path) ==
    IF Len(path) = 0 THEN 0
    ELSE IF ~HasChild(v, Head(path)) THEN 1
    ELSE LET m == MissingAt(Child(v, Head(path)), Tail(path)) IN
         IF m = 0 THEN 0 ELSE m + 1

RECURSIVE ValueAt(_, _)
\* the JSON value at path in v, every segment existing
ValueAt(v, path) ==
    IF Len(path) = 0 THEN v ELSE ValueAt(Child(v, Head(path)), Tail(path))

\* the cells that navigate data: the cell, the cell after it, its path
Extractions ==
    { [cell |-> "cell7", next |-> "cell10", path |-> cost_path],
      [cell |-> "cell11", next |-> "cell13", path |-> registrationID_path],
      [cell |-> "cell14", next |-> "done", path |-> brown_vegetation_path] }

\* the name an extraction cell binds
Bound(cell) ==
    CASE cell = "cell7" -> cost
      [] cell = "cell11" -> registrationID
      [] cell = "cell14" -> brown_vegetation

\* C7 as stated: an extraction yields the value at the path when every
\* segment exists; otherwise it binds nothing and fails with a key or index
\* error that names the first missing segment.
C7_Original ==
    \A e \in Extractions :
        /\ pc = e.next =>
              /\ MissingAt(data, e.path) = 0
              /\ Bound(e.cell) = ValueAt(data, e.path)
        /\ failed = e.cell =>
              /\ MissingAt(data, e.path) > 0
              /\ Bound(e.cell) = Unset
              /\ raised.type \in {"KeyError", "IndexError"}
              /\ raised.msg = repr(e.path[MissingAt(data, e.path)])

\* C7 amended: an extraction yields the value at the path when every segment
\* exists; otherwise it binds nothing and fails at the first missing segment:
\* with KeyError naming the key when the key is absent from an object, with
\* IndexError "list index out of range", which does not name the index, when
\* the index is past the end of a list, and with a TypeError or IndexError
\* naming no segment when the value reached is null, a number, a string, or a
\* list subscripted by a key.
C7_Extraction ==
    \A e \in Extractions :
        /\ pc = e.next =>
              /\ MissingAt(data, e.path) = 0
              /\ Bound(e.cell) = ValueAt(data, e.path)
        /\ failed = e.cell =>
              LET k == MissingAt(data, e.path)
                  parent == ValueAt(data, SubSeq(e.path, 1, k - 1))
                  seg == e.path[k]
              IN  /\ k > 0
                  /\ Bound(e.cell) = Unset
                  /\ pc = "halted"
                  /\ CASE parent.t = "dict" -> raised = Exc("KeyError", repr(seg))
                       [] parent.t = "list" /\ ~IsKey(seg) ->
                            raised = Exc("IndexError", "list index out of range")
                       [] OTHER ->
                            /\ raised.type \in {"TypeError", "IndexError"}
                            /\ raised.msg \notin {repr(e.path[i]) : i \in 1..Len(e.path)}

\* C7 witness: the cost list is empty, so index 0 is the first missing
\* segment, and the cell failed with an IndexError.
C7_Witness ==
    /\ failed = "cell7"
    /\ data = empty_list_doc
    /\ MissingAt(data, cost_path) = 4
    /\ raised.type = "IndexError"

\* C8: once cell 2 has run, the key is the environment's API_KEY when that
\* is set, and then input() was never called; otherwise input() was called
\* once and the key is what was typed, stripped; every request sent carries
\* this key as OCP-APIM-Subscription-Key together with Accept and
\* Content-Type application/json.
C8_SubscriptionKey ==
    /\ prompts <= 1
    /\ pc # "cell2" =>
          /\ environ.set => (API_KEY = environ.value /\ prompts = 0)
          /\ ~environ.set => (API_KEY = "k9" /\ prompts = 1)
          /\ \A i \in 1..Len(sent) :
                /\ DOMAIN sent[i].headers =
                       {"OCP-APIM-Subscription-Key", "Accept", "Content-Type"}
                /\ sent[i].headers["OCP-APIM-Subscription-Key"] = API_KEY
                /\ sent[i].headers["Accept"] = "application/json"
                /\ sent[i].headers["Content-Type"] = "application/json"
    /\ pc = "cell2" => sent = <<>>

\* C8 witness: the variable is set, nothing was typed in, and all three
\* requests went out with the environment's key.
C8_Witness ==
    /\ environ.set
    /\ prompts = 0
    /\ Len(sent) = 3
    /\ \A i \in 1..3 : sent[i].headers["OCP-APIM-Subscription-Key"] = "env-key"

\* C10 as stated: the transport error is raised exactly for the statuses
\* outside 200..299.
C10_Original ==
    JustRan => (raised = TransportError(result) <=> result.status_code \notin 200..299)

\* C10 amended: the transport error is raised exactly for the statuses other
\* than 200; a 2xx status other than 200 (201, 204) is a transport error too,
\* and its body is not examined: no error entry is printed.
C10_Not200 ==
    JustRan =>
        /\ raised = TransportError(result) <=> result.status_code # 200
        /\ result.status_code # 200 => stdout = <<>>

\* C10 witness: a 201 response whose body carries error entries ended the run
\* with the transport error, and nothing was printed.
C10_Witness ==
    /\ failed \in QueryCells
    /\ result.status_code = 201
    /\ Len(result.body.errors) > 0
    /\ raised = TransportError(result)
    /\ stdout = <<>>

====
